---- MODULE Spec2Model ----
(***************************************************************************)
(* Model of the inventory dashboard (src/app.py): the login gate, the      *)
(* cached spreadsheet loader with its record normalizer, the projection    *)
(* engine calculate_inventory and the month summary built from its output. *)
(*                                                                         *)
(* Representation.                                                         *)
(*   - A DataFrame is a sequence of records, one per row, in row order.    *)
(*     pd.DataFrame() (no rows, no columns) is <<>>.                       *)
(*   - Quantities are counted in halves, so that fractional stock levels   *)
(*     (x.5) exist and every sum is exact: the integer n stands for the    *)
(*     Python number n/2.                                                  *)
(*   - A calendar date is the number of days since 2025-01-01, wrapped in  *)
(*     a one-element sequence when it sits in a normalized date column:    *)
(*     <<30>> is 2025-01-31 and <<>> is NaT, the value left by             *)
(*     pd.to_datetime(..., errors='coerce') for an unparsable cell.        *)
(*   - The columns po_number / order_number are read only by the drill-    *)
(*     down tables and are left out of the event rows.                     *)
(***************************************************************************)
EXTENDS Integers, Sequences, FiniteSets, TLC

VARIABLES
    session_state,      \* st.session_state: a function on the keys present
    entered,            \* the text last typed into the password box
    cache,              \* st.cache_data entry of load_data_from_sheets
    chosen_start_date,  \* value of the "Start Date" widget / start_date argument
    view_option,        \* value of the "Look Ahead:" radio
    days_to_show,       \* days_to_show argument of the last projection
    skus,               \* the three tables handed to the last run
    inbound,
    outbound,
    load_error,         \* the last load went through its except branch
    called,             \* calculate_inventory was invoked in the last run
    df_processed,       \* its result
    df_summary,         \* the month summary built from it
    screen              \* what the last script run rendered

vars == <<session_state, entered, cache, chosen_start_date, view_option,
          days_to_show, skus, inbound, outbound, load_error, called,
          df_processed, df_summary, screen>>

(***************************************************************************)
(* Bounds of the enumerated inputs.                                        *)
(***************************************************************************)
MaxSkus == 2        \* rows of the SKU table
MaxEvents == 2      \* rows of the inbound and outbound tables together
MaxDays == 2        \* horizon of a direct call of calculate_inventory

(***************************************************************************)
(* Calendar: datetime.date, timedelta and strftime("%B %Y").               *)
(***************************************************************************)
NaT == <<>>

IsLeap(y) == (y % 4 = 0 /\ y % 100 # 0) \/ y % 400 = 0

DaysInMonth(y, m) ==
    IF m = 2 THEN (IF IsLeap(y) THEN 29 ELSE 28)
    ELSE IF m \in {4, 6, 9, 11} THEN 30 ELSE 31

MonthName ==
    <<"January", "February", "March", "April", "May", "June", "July",
      "August", "September", "October", "November", "December">>

\* The calendar month holding day number n, counted from day 0 of month m
\* of year y.
RECURSIVE YearMonth(_, _, _)
YearMonth(n, y, m) ==
    IF n < DaysInMonth(y, m) THEN <<y, m>>
    ELSE YearMonth(n - DaysInMonth(y, m),
                   IF m = 12 THEN y + 1 ELSE y,
                   IF m = 12 THEN 1 ELSE m + 1)

\* d.strftime("%B %Y"), as the pair <<month name, year>>.
MonthLabel(d) ==
    LET ym == YearMonth(d, 2025, 1) IN <<MonthName[ym[2]], ym[1]>>

\* start_date + timedelta(days=x)
AddDays(d, x) == d + x

(***************************************************************************)
(* Comparison of a normalized date column cell with a datetime.date.       *)
(* A null cell (NaT) compares False under both < and ==.                   *)
(***************************************************************************)
\* A comparison under which NaT sorts before every date.
DateLTBug(cell, d) == cell = NaT \/ cell[1] < d
DateLT(cell, d) == cell # NaT /\ cell[1] < d

DateEQ(cell, d) == cell # NaT /\ cell[1] = d

(***************************************************************************)
(* The projection engine, calculate_inventory.                             *)
(***************************************************************************)
\* frame['qty'].sum()
RECURSIVE QtySum(_)
QtySum(rows) == IF rows = <<>> THEN 0 ELSE Head(rows).qty + QtySum(Tail(rows))

\* A carry-forward that also takes the events dated start_date itself.
past_in_bug(inb, sku_id, start_date) ==
    QtySum(SelectSeq(inb, LAMBDA r :
        r.sku_id = sku_id /\ r.arrival_date # NaT
                          /\ r.arrival_date[1] <= start_date))
past_in(inb, sku_id, start_date) ==
    QtySum(SelectSeq(inb, LAMBDA r :
        r.sku_id = sku_id /\ DateLT(r.arrival_date, start_date)))

past_out(outb, sku_id, start_date) ==
    QtySum(SelectSeq(outb, LAMBDA r :
        r.sku_id = sku_id /\ DateLT(r.dispatch_date, start_date)))

day_in(inb, sku_id, d) ==
    QtySum(SelectSeq(inb, LAMBDA r :
        r.sku_id = sku_id /\ DateEQ(r.arrival_date, d)))

\* A day's outbound total taken over every SKU.
day_out_bug(outb, sku_id, d) ==
    QtySum(SelectSeq(outb, LAMBDA r : DateEQ(r.dispatch_date, d)))
day_out(outb, sku_id, d) ==
    QtySum(SelectSeq(outb, LAMBDA r :
        r.sku_id = sku_id /\ DateEQ(r.dispatch_date, d)))

\* sku['description'] if 'description' in sku and sku['description'] else sku_id
sku_desc(sku) == IF sku.description # "" THEN sku.description ELSE sku.sku_id

\* current_stock = sku['stock_on_hand'] + past_in - past_out
carried_forward(sku, inb, outb, start_date) ==
    sku.stock_on_hand + past_in(inb, sku.sku_id, start_date)
                      - past_out(outb, sku.sku_id, start_date)

\* A balance that is overwritten by the day's net change.
accumulate_bug(current_stock, net_change) == net_change
\* current_stock += net_change
accumulate(current_stock, net_change) == current_stock + net_change

\* A band in which a stock equal to the threshold is still AMBER.
StatusBug(current_stock, safety_stock) ==
    IF current_stock < 0 THEN "RED"
    ELSE IF current_stock <= safety_stock THEN "AMBER"
    ELSE "GREEN"
Status(current_stock, safety_stock) ==
    IF current_stock < 0 THEN "RED"
    ELSE IF current_stock < safety_stock THEN "AMBER"
    ELSE "GREEN"

\* The glyphs are written in ASCII: "^v" both, "^" inbound, "v" outbound.
\* A marker without the case of both kinds of event.
MarkerBug(din, dout) ==
    IF din > 0 THEN "^"
    ELSE IF dout > 0 THEN "v"
    ELSE ""
Marker(din, dout) ==
    IF din > 0 /\ dout > 0 THEN "^v"
    ELSE IF din > 0 THEN "^"
    ELSE IF dout > 0 THEN "v"
    ELSE ""

\* int(x): truncation toward zero, of a number held in halves.
IntOf(x) == IF x >= 0 THEN x \div 2 ELSE -((-x) \div 2)

\* int(x) if x == int(x) else x: an integral number is shown as an int,
\* any other as the float it is.
DisplayNumber(x) ==
    IF 2 * IntOf(x) = x THEN [int |-> IntOf(x)] ELSE [float |-> x]

\* The number (in halves) a displayed value reads as.
DisplayedValue(shown) ==
    IF "int" \in DOMAIN shown THEN 2 * shown.int ELSE shown.float

\* date_range = [start_date + timedelta(days=x) for x in range(days_to_show)]
\* A window walked from its last day to its first.
date_range_bug(start_date, days) ==
    [x \in 1..days |-> AddDays(start_date, days - x)]
date_range(start_date, days) ==
    [x \in 1..days |-> AddDays(start_date, x - 1)]

\* One pass through the body of "for d in date_range": the cell of SKU row
\* sku on day d, current_stock being the running balance before that day.
DayCell(sku, current_stock, d, inb, outb) ==
    LET din == day_in(inb, sku.sku_id, d)
        dout == day_out(outb, sku.sku_id, d)
        net_change == din - dout
        stock == accumulate(current_stock, net_change)
        marker == Marker(din, dout)
    IN  [SKU_ID |-> sku.sku_id,
         Description |-> sku_desc(sku),
         Date |-> d,
         Month_Label |-> MonthLabel(d),
         Stock |-> stock,
         Status |-> Status(stock, sku.safety_threshold),
         Marker |-> marker,
         Display |-> <<DisplayNumber(stock), marker>>]

\* "for d in date_range" over the dates given, in their order, starting
\* from the running balance current_stock.  The dates are walked as a first
\* half followed by a second half that starts from the balance the first
\* half ended with, which keeps the evaluation shallow on long horizons.
RECURSIVE DayWalk(_, _, _, _, _)
DayWalk(sku, current_stock, dates, inb, outb) ==
    IF dates = <<>> THEN <<>>
    ELSE IF Len(dates) = 1
    THEN <<DayCell(sku, current_stock, dates[1], inb, outb)>>
    ELSE LET half == Len(dates) \div 2
             first == DayWalk(sku, current_stock, SubSeq(dates, 1, half),
                              inb, outb)
         IN  first \o DayWalk(sku, first[half].Stock,
                              SubSeq(dates, half + 1, Len(dates)), inb, outb)

\* "for _, sku in skus.iterrows()": each SKU starts from its own
\* carried-forward balance.
RECURSIVE SkuLoop(_, _, _, _, _)
SkuLoop(sk, inb, outb, start_date, dates) ==
    IF sk = <<>> THEN <<>>
    ELSE DayWalk(Head(sk),
                 carried_forward(Head(sk), inb, outb, start_date),
                 dates, inb, outb)
         \o SkuLoop(Tail(sk), inb, outb, start_date, dates)

calculate_inventory(sk, inb, outb, start_date, days) ==
    IF sk = <<>> THEN <<>>
    ELSE SkuLoop(sk, inb, outb, start_date, date_range(start_date, days))

(***************************************************************************)
(* The month summary: df_processed.groupby(['Description','Month_Label']). *)
(***************************************************************************)
\* Every string that can be a group key component, in the order Python
\* compares strings; groupby hands out its groups in sorted key order.
Lexicon ==
    <<"A", "April", "August", "B", "Bolt", "December", "February", "January",
      "July", "June", "March", "May", "November", "Nut", "October",
      "September">>

StrRank(s) == CHOOSE i \in DOMAIN Lexicon : Lexicon[i] = s

\* Order of two distinct keys <<Description, Month_Label>>.
KeyLess(k1, k2) ==
    IF k1[1] # k2[1] THEN StrRank(k1[1]) < StrRank(k2[1])
    ELSE IF k1[2][1] # k2[2][1] THEN StrRank(k1[2][1]) < StrRank(k2[2][1])
    ELSE k1[2][2] < k2[2][2]

GroupKeys(df) == {<<df[i].Description, df[i].Month_Label>> : i \in DOMAIN df}

RECURSIVE SortKeys(_)
SortKeys(S) ==
    IF S = {} THEN <<>>
    ELSE LET first == CHOOSE k \in S : \A o \in S \ {k} : KeyLess(k, o)
         IN  <<first>> \o SortKeys(S \ {first})

GroupRows(df, name) ==
    SelectSeq(df, LAMBDA c : c.Description = name[1] /\ c.Month_Label = name[2])

\* group['Stock'].min()
RECURSIVE min_stock(_)
min_stock(group) ==
    IF Len(group) = 1 THEN Head(group).Stock
    ELSE LET rest == min_stock(Tail(group))
         IN  IF Head(group).Stock < rest THEN Head(group).Stock ELSE rest

\* A precedence that puts AMBER over RED.
month_status_bug(group) ==
    IF \E i \in DOMAIN group : group[i].Status = "AMBER" THEN "AMBER"
    ELSE IF \E i \in DOMAIN group : group[i].Status = "RED" THEN "RED"
    ELSE "GREEN"
month_status(group) ==
    IF \E i \in DOMAIN group : group[i].Status = "RED" THEN "RED"
    ELSE IF \E i \in DOMAIN group : group[i].Status = "AMBER" THEN "AMBER"
    ELSE "GREEN"

\* The "Summary Data Logic" loop: one appended row per group.
summary_data(df) ==
    LET names == SortKeys(GroupKeys(df))
    IN  [g \in DOMAIN names |->
            LET group == GroupRows(df, names[g])
            IN  [Description |-> names[g][1],
                 Month_Label |-> names[g][2],
                 Display |-> DisplayNumber(min_stock(group)),
                 Status |-> month_status(group)]]

(***************************************************************************)
(* Inputs of a direct call of the engine.                                  *)
(***************************************************************************)
SkuRows ==
    { [sku_id |-> "A", description |-> "Bolt", stock_on_hand |-> 2,
       safety_threshold |-> 2],
      [sku_id |-> "B", description |-> "Bolt", stock_on_hand |-> -1,
       safety_threshold |-> 0],
      [sku_id |-> "B", description |-> "", stock_on_hand |-> 3,
       safety_threshold |-> 2] }

\* The event rows, as lists in a fixed order.  The last inbound row is one
\* whose qty cell was not a number and was coerced to 0.
InboundRows ==
    <<[sku_id |-> "A", qty |-> 3, arrival_date |-> NaT],
      [sku_id |-> "A", qty |-> 3, arrival_date |-> <<29>>],
      [sku_id |-> "A", qty |-> 3, arrival_date |-> <<30>>],
      [sku_id |-> "A", qty |-> 3, arrival_date |-> <<31>>],
      [sku_id |-> "B", qty |-> 3, arrival_date |-> <<29>>],
      [sku_id |-> "B", qty |-> 3, arrival_date |-> <<30>>],
      [sku_id |-> "A", qty |-> 0, arrival_date |-> <<30>>]>>

OutboundRows ==
    <<[sku_id |-> "A", qty |-> 2, dispatch_date |-> NaT],
      [sku_id |-> "A", qty |-> 2, dispatch_date |-> <<29>>],
      [sku_id |-> "A", qty |-> 2, dispatch_date |-> <<30>>],
      [sku_id |-> "A", qty |-> 2, dispatch_date |-> <<31>>],
      [sku_id |-> "B", qty |-> 2, dispatch_date |-> <<30>>],
      [sku_id |-> "B", qty |-> 2, dispatch_date |-> <<31>>]>>

StartDates == {30, 31}

SeqsUpTo(S, n) == UNION {[1..k -> S] : k \in 0..n}

SkuTables == SeqsUpTo(SkuRows, MaxSkus)

\* The tables of n rows taken from the list rows, each bag of rows in one
\* row order (that of the list): the engine reads an event table only
\* through sums over selected rows.
TablesOf(rows, n) ==
    {[i \in 1..n |-> rows[f[i]]] :
        f \in {g \in [1..n -> DOMAIN rows] :
                  \A i \in 1..(n - 1) : g[i] <= g[i + 1]}}

\* The pairs <<inbound, outbound>> of at most MaxEvents rows together.
EventTables ==
    UNION {TablesOf(InboundRows, k) \X TablesOf(OutboundRows, j) :
           <<k, j>> \in {p \in (0..MaxEvents) \X (0..MaxEvents) :
                            p[1] + p[2] <= MaxEvents}}

(***************************************************************************)
(* State.                                                                  *)
(***************************************************************************)
NoKeys == [k \in {} |-> FALSE]

Init ==
    /\ session_state = NoKeys
    /\ entered = ""
    /\ cache = <<>>
    /\ chosen_start_date = 30
    /\ view_option = "30 Days"
    /\ days_to_show = 0
    /\ skus = <<>>
    /\ inbound = <<>>
    /\ outbound = <<>>
    /\ load_error = ""
    /\ called = FALSE
    /\ df_processed = <<>>
    /\ df_summary = <<>>
    /\ screen = "none"

(***************************************************************************)
(* Direct calls of the engine: the three tables are drawn at the start,    *)
(* Project applies calculate_inventory to them for a window and builds the *)
(* summary the script builds from a non-empty result.                      *)
(***************************************************************************)
InitEngine ==
    /\ session_state = NoKeys
    /\ entered = ""
    /\ cache = <<>>
    /\ chosen_start_date = 30
    /\ view_option = "30 Days"
    /\ days_to_show = 0
    /\ skus \in SkuTables
    /\ \E ev \in EventTables : inbound = ev[1] /\ outbound = ev[2]
    /\ load_error = ""
    /\ called = FALSE
    /\ df_processed = <<>>
    /\ df_summary = <<>>
    /\ screen = "none"

Project ==
    /\ ~called
    /\ \E sd \in StartDates, n \in 0..MaxDays :
        /\ chosen_start_date' = sd
        /\ days_to_show' = n
        /\ df_processed' = calculate_inventory(skus, inbound, outbound, sd, n)
    /\ df_summary' =
         IF df_processed' # <<>> THEN summary_data(df_processed') ELSE <<>>
    /\ called' = TRUE
    /\ UNCHANGED <<session_state, entered, cache, view_option, skus, inbound,
                   outbound, load_error, screen>>

NextEngine == Project

SpecEngine == InitEngine /\ [][NextEngine]_vars

(***************************************************************************)
(* The login gate, check_password.                                         *)
(***************************************************************************)
\* st.session_state[key] = value
SetKey(ss, key, value) ==
    [k \in DOMAIN ss \cup {key} |-> IF k = key THEN value ELSE ss[k]]

\* del st.session_state[key]
DelKey(ss, key) == [k \in DOMAIN ss \ {key} |-> ss[k]]

\* The on_change callback of the password box.
password_entered(ss) ==
    IF ss["password"] = "inventory2026"
    THEN DelKey(SetKey(ss, "password_correct", TRUE), "password")
    ELSE SetKey(ss, "password_correct", FALSE)

\* st.text_input(..., key="password"): a rendered widget holds its value in
\* the session state, "" until something is typed.
text_input(ss) ==
    IF "password" \in DOMAIN ss THEN ss ELSE SetKey(ss, "password", "")

\* A gate that opens as soon as the flag exists.
check_password_bug(ss) ==
    IF "password_correct" \notin DOMAIN ss
    THEN [ok |-> FALSE, state |-> text_input(ss), screen |-> "login"]
    ELSE [ok |-> TRUE, state |-> ss, screen |-> ""]
\* check_password(): its return value, the session state it leaves and what
\* it renders.
check_password(ss) ==
    IF "password_correct" \notin DOMAIN ss
    THEN [ok |-> FALSE, state |-> text_input(ss), screen |-> "login"]
    ELSE IF ~ss["password_correct"]
    THEN [ok |-> FALSE, state |-> text_input(ss), screen |-> "login_error"]
    ELSE [ok |-> TRUE, state |-> ss, screen |-> ""]

(***************************************************************************)
(* load_data_from_sheets and its record normalizer.  A raw numeric cell is *)
(* <<n>> when it holds the number n and <<>> when it holds anything else;  *)
(* a raw date cell is the sequence of the numbers written in it, <<31, 1,  *)
(* 2025>> for "31/01/2025" and <<>> for a text without a date.             *)
(***************************************************************************)
\* pd.to_numeric(cell, errors='coerce'), then fillna(0)
to_numeric(cell) == IF cell = <<>> THEN 0 ELSE cell[1]

RECURSIVE DaysBeforeYear(_)
DaysBeforeYear(y) ==
    IF y = 2025 THEN 0
    ELSE DaysBeforeYear(y - 1) + (IF IsLeap(y - 1) THEN 366 ELSE 365)

RECURSIVE DaysBeforeMonth(_, _)
DaysBeforeMonth(y, m) ==
    IF m = 1 THEN 0 ELSE DaysBeforeMonth(y, m - 1) + DaysInMonth(y, m - 1)

\* pd.to_datetime(cell, dayfirst=True, errors='coerce').date(): the first
\* number is the day, the second the month.
to_datetime(cell) ==
    IF /\ Len(cell) = 3
       /\ cell[3] >= 2025
       /\ cell[2] \in 1..12
       /\ cell[1] \in 1..DaysInMonth(cell[3], cell[2])
    THEN <<DaysBeforeYear(cell[3]) + DaysBeforeMonth(cell[3], cell[2])
           + cell[1] - 1>>
    ELSE NaT

clean_skus(data) ==
    [i \in DOMAIN data |->
        [sku_id |-> data[i].sku_id,
         description |-> data[i].description,
         stock_on_hand |-> to_numeric(data[i].stock_on_hand),
         safety_threshold |-> to_numeric(data[i].safety_threshold)]]

clean_inbound(data) ==
    [i \in DOMAIN data |->
        [sku_id |-> data[i].sku_id,
         qty |-> to_numeric(data[i].qty),
         arrival_date |-> to_datetime(data[i].arrival_date)]]

clean_outbound(data) ==
    [i \in DOMAIN data |->
        [sku_id |-> data[i].sku_id,
         qty |-> to_numeric(data[i].qty),
         dispatch_date |-> to_datetime(data[i].dispatch_date)]]

\* Where a load can raise: the connection (credentials, authorize, open)
\* and each of the three worksheet reads.
Faults == {"", "connect", "db_skus", "db_inbound", "db_outbound"}

\* The exception the try block ends with, "" when it returns.  A worksheet
\* without records gives a DataFrame without columns, and selecting its
\* date column raises KeyError.
Raised(sheet, fault) ==
    IF fault # "" THEN fault
    ELSE IF sheet.db_inbound = <<>> THEN "arrival_date"
    ELSE IF sheet.db_outbound = <<>> THEN "dispatch_date"
    ELSE ""

\* An except branch that hands back what had been read before the failure.
load_data_from_sheets_bug(sheet, fault) ==
    IF Raised(sheet, fault) \in {"", "dispatch_date"}
    THEN [skus |-> clean_skus(sheet.db_skus),
          inbound |-> clean_inbound(sheet.db_inbound),
          outbound |-> clean_outbound(sheet.db_outbound),
          error |-> Raised(sheet, fault)]
    ELSE [skus |-> <<>>, inbound |-> <<>>, outbound |-> <<>>,
          error |-> Raised(sheet, fault)]
\* load_data_from_sheets(): the three tables it returns, and the error it
\* reports.
load_data_from_sheets(sheet, fault) ==
    IF Raised(sheet, fault) = ""
    THEN [skus |-> clean_skus(sheet.db_skus),
          inbound |-> clean_inbound(sheet.db_inbound),
          outbound |-> clean_outbound(sheet.db_outbound),
          error |-> ""]
    ELSE [skus |-> <<>>, inbound |-> <<>>, outbound |-> <<>>,
          error |-> Raised(sheet, fault)]

(***************************************************************************)
(* What the spreadsheet can hold when it is read, and what the user can    *)
(* enter.                                                                  *)
(***************************************************************************)
SkuSheets ==
    { <<>>,
      <<[sku_id |-> "A", description |-> "Bolt", stock_on_hand |-> <<20>>,
         safety_threshold |-> <<10>>]>>,
      <<[sku_id |-> "A", description |-> "Bolt", stock_on_hand |-> <<>>,
         safety_threshold |-> <<10>>],
        [sku_id |-> "B", description |-> "", stock_on_hand |-> <<-6>>,
         safety_threshold |-> <<0>>]>> }

InboundSheets ==
    { <<>>,
      <<[sku_id |-> "A", qty |-> <<10>>, arrival_date |-> <<2, 2, 2025>>]>>,
      <<[sku_id |-> "A", qty |-> <<10>>, arrival_date |-> <<30, 1, 2025>>],
        [sku_id |-> "B", qty |-> <<>>, arrival_date |-> <<1, 3, 2025>>],
        [sku_id |-> "B", qty |-> <<7>>, arrival_date |-> <<>>]>> }

OutboundSheets ==
    { <<>>,
      <<[sku_id |-> "A", qty |-> <<16>>, dispatch_date |-> <<1, 2, 2025>>],
        [sku_id |-> "B", qty |-> <<3>>, dispatch_date |-> <<31, 2, 2025>>]>> }

Sheets == [db_skus : SkuSheets, db_inbound : InboundSheets,
           db_outbound : OutboundSheets]

Typed == {"inventory2026", "Inventory2026", "letmein"}

PickableDates == {30, 31, 58}

days_map == ("30 Days" :> 30) @@ ("60 Days" :> 60) @@ ("90 Days" :> 90)

(***************************************************************************)
(* One run of the script, top to bottom, and the user's actions, each of   *)
(* which ends in a run.                                                    *)
(***************************************************************************)
\* From "if not skus.empty:" on, with the tables the load returned.
Render(loaded, sd, vo) ==
    /\ skus' = loaded.skus
    /\ inbound' = loaded.inbound
    /\ outbound' = loaded.outbound
    /\ load_error' = loaded.error
    /\ IF loaded.skus # <<>>
       THEN /\ called' = TRUE
            /\ days_to_show' = days_map[vo]
            /\ df_processed' =
                 calculate_inventory(loaded.skus, loaded.inbound,
                                     loaded.outbound, sd, days_map[vo])
            /\ df_summary' =
                 IF df_processed' # <<>> THEN summary_data(df_processed')
                 ELSE <<>>
            /\ screen' = "dashboard"
       ELSE /\ called' = FALSE
            /\ days_to_show' = 0
            /\ df_processed' = <<>>
            /\ df_summary' = <<>>
            /\ screen' = "waiting"

\* The script run with session state ss, cache entry c and the widget
\* values sd and vo.  A miss of the cache reads the spreadsheet, which
\* holds any of Sheets and can fail at any of Faults.
Run(ss, c, sd, vo) ==
    LET gate == check_password(ss)
    IN  /\ session_state' = gate.state
        /\ chosen_start_date' = sd
        /\ view_option' = vo
        /\ IF ~gate.ok
           THEN \* st.stop()
                /\ screen' = gate.screen
                /\ cache' = c
                /\ skus' = <<>>
                /\ inbound' = <<>>
                /\ outbound' = <<>>
                /\ load_error' = ""
                /\ called' = FALSE
                /\ days_to_show' = 0
                /\ df_processed' = <<>>
                /\ df_summary' = <<>>
           ELSE IF c # <<>>
           THEN /\ cache' = c
                /\ Render(c[1], sd, vo)
           ELSE \E sheet \in Sheets, fault \in Faults :
                    /\ cache' = <<load_data_from_sheets(sheet, fault)>>
                    /\ Render(cache'[1], sd, vo)

\* The page is opened, or reruns with no widget changed.
Rerun ==
    /\ entered' = entered
    /\ Run(session_state, cache, chosen_start_date, view_option)

\* Text p is typed into the password box: the callback, then the rerun.
SubmitPassword ==
    \E p \in Typed :
        /\ screen \in {"login", "login_error"}
        /\ p # session_state["password"]
        /\ entered' = p
        /\ Run(password_entered(SetKey(session_state, "password", p)),
               cache, chosen_start_date, view_option)

PastGate == screen \in {"waiting", "dashboard"}

PickStartDate ==
    \E d \in PickableDates :
        /\ PastGate
        /\ d # chosen_start_date
        /\ entered' = entered
        /\ Run(session_state, cache, d, view_option)

PickView ==
    \E v \in DOMAIN days_map :
        /\ PastGate
        /\ v # view_option
        /\ entered' = entered
        /\ Run(session_state, cache, chosen_start_date, v)

\* "Refresh Data": st.cache_data.clear(), then st.rerun().
ClickRefresh ==
    /\ PastGate
    /\ entered' = entered
    /\ Run(session_state, <<>>, chosen_start_date, view_option)

\* The entry's ttl of 60 seconds runs out.
CacheExpires ==
    /\ cache # <<>>
    /\ cache' = <<>>
    /\ UNCHANGED <<session_state, entered, chosen_start_date, view_option,
                   days_to_show, skus, inbound, outbound, load_error, called,
                   df_processed, df_summary, screen>>

Next ==
    \/ Rerun
    \/ SubmitPassword
    \/ PickStartDate
    \/ PickView
    \/ ClickRefresh
    \/ CacheExpires

Spec == Init /\ [][Next]_vars

(***************************************************************************)
(* Vocabulary of the properties of a projection: the cell of SKU row i on  *)
(* day k of the window, and sums over the event tables written directly    *)
(* from the tables.                                                        *)
(***************************************************************************)
FullGrid == Len(df_processed) = Len(skus) * days_to_show

Rows == DOMAIN skus
Days == 1..days_to_show

CellAt(i, k) == df_processed[(i - 1) * days_to_show + k]

DayOf(k) == chosen_start_date + k - 1

RECURSIVE QtyOfRows(_, _)
QtyOfRows(table, J) ==
    IF J = {} THEN 0
    ELSE LET j == CHOOSE x \in J : TRUE
         IN  table[j].qty + QtyOfRows(table, J \ {j})

InboundOn(id, d) ==
    QtyOfRows(inbound, {j \in DOMAIN inbound :
        inbound[j].sku_id = id /\ inbound[j].arrival_date = <<d>>})

OutboundOn(id, d) ==
    QtyOfRows(outbound, {j \in DOMAIN outbound :
        outbound[j].sku_id = id /\ outbound[j].dispatch_date = <<d>>})

InboundBefore(id, d) ==
    QtyOfRows(inbound, {j \in DOMAIN inbound :
        /\ inbound[j].sku_id = id
        /\ inbound[j].arrival_date # NaT
        /\ inbound[j].arrival_date[1] < d})

OutboundBefore(id, d) ==
    QtyOfRows(outbound, {j \in DOMAIN outbound :
        /\ outbound[j].sku_id = id
        /\ outbound[j].dispatch_date # NaT
        /\ outbound[j].dispatch_date[1] < d})

\* C1: every cell's Stock is its predecessor's Stock plus the SKU's inbound
\* quantity of that day minus its outbound quantity of that day, where the
\* predecessor of the first day is the carried-forward balance
\* stock_on_hand + inbound before start_date - outbound before start_date,
\* taken anew for each SKU row.
C1_StockRecurrence ==
    called =>
        /\ FullGrid
        /\ \A i \in Rows : \A k \in Days :
            LET id == skus[i].sku_id
                before ==
                    IF k = 1
                    THEN skus[i].stock_on_hand
                         + InboundBefore(id, chosen_start_date)
                         - OutboundBefore(id, chosen_start_date)
                    ELSE CellAt(i, k - 1).Stock
            IN  CellAt(i, k).Stock =
                    before + InboundOn(id, DayOf(k)) - OutboundOn(id, DayOf(k))

\* A SKU with an event before the window and an event on its second day.
C1_Witness ==
    /\ called /\ FullGrid /\ days_to_show >= 2
    /\ \E i \in Rows :
        /\ InboundBefore(skus[i].sku_id, chosen_start_date) > 0
        /\ OutboundOn(skus[i].sku_id, DayOf(2)) > 0
        /\ CellAt(i, 2).Stock # CellAt(i, 1).Stock

\* C2: every cell is RED exactly when its Stock is negative, AMBER exactly
\* when 0 <= Stock < the safety_threshold of its SKU row, and GREEN exactly
\* in the remaining case; Stock being the level after the day's net change.
C2_StatusBands ==
    called =>
        /\ FullGrid
        /\ \A i \in Rows : \A k \in Days :
            LET c == CellAt(i, k)
                safety == skus[i].safety_threshold
            IN  /\ c.Status \in {"RED", "AMBER", "GREEN"}
                /\ c.Status = "RED" <=> c.Stock < 0
                /\ c.Status = "AMBER" <=> (0 <= c.Stock /\ c.Stock < safety)
                /\ c.Status = "GREEN" <=>
                       ~(c.Stock < 0) /\ ~(0 <= c.Stock /\ c.Stock < safety)

\* One projection holding a RED cell, a GREEN cell whose Stock equals its
\* safety threshold, and an AMBER cell reached by that day's outbound.
C2_Witness ==
    /\ called /\ FullGrid
    /\ \E n \in DOMAIN df_processed : df_processed[n].Status = "RED"
    /\ \E i \in Rows : \E k \in Days :
        /\ CellAt(i, k).Status = "GREEN"
        /\ CellAt(i, k).Stock = skus[i].safety_threshold
        /\ k < days_to_show
        /\ CellAt(i, k + 1).Status = "AMBER"
        /\ CellAt(i, k + 1).Marker = "v"

\* C3: the result holds exactly len(skus) * days_to_show cells; the cells
\* of SKU row i are the i-th block, in the SKU table's row order, and
\* within a block the dates are start_date, start_date + 1, ... ; so an
\* empty SKU table and a horizon of 0 both give the empty result.
C3_GridShape ==
    called =>
        /\ FullGrid
        /\ \A i \in Rows : \A k \in Days :
            /\ CellAt(i, k).SKU_ID = skus[i].sku_id
            /\ CellAt(i, k).Description =
                 (IF skus[i].description = "" THEN skus[i].sku_id
                  ELSE skus[i].description)
            /\ CellAt(i, k).Date = chosen_start_date + (k - 1)
        /\ (skus = <<>> \/ days_to_show = 0) => df_processed = <<>>

\* Two different SKUs over the longest horizon.
C3_Witness ==
    /\ called
    /\ Len(skus) = MaxSkus
    /\ days_to_show = MaxDays
    /\ skus[1].sku_id # skus[2].sku_id
    /\ Len(df_processed) = MaxSkus * MaxDays

InboundUpTo(id, d) ==
    QtyOfRows(inbound, {j \in DOMAIN inbound :
        /\ inbound[j].sku_id = id
        /\ inbound[j].arrival_date # NaT
        /\ inbound[j].arrival_date[1] <= d})

OutboundUpTo(id, d) ==
    QtyOfRows(outbound, {j \in DOMAIN outbound :
        /\ outbound[j].sku_id = id
        /\ outbound[j].dispatch_date # NaT
        /\ outbound[j].dispatch_date[1] <= d})

\* C4: no event is counted twice: the accumulated Stock of every cell
\* equals the value computed from scratch, stock_on_hand plus the SKU's
\* inbound quantity dated up to that day minus its outbound quantity dated
\* up to that day.
C4_NoDoubleCount ==
    called =>
        /\ FullGrid
        /\ \A i \in Rows : \A k \in Days :
            CellAt(i, k).Stock =
                skus[i].stock_on_hand
                + InboundUpTo(skus[i].sku_id, DayOf(k))
                - OutboundUpTo(skus[i].sku_id, DayOf(k))

\* A SKU with one event before the window, one on its first day and one
\* on a later day.
C4_Witness ==
    /\ called /\ FullGrid /\ days_to_show >= 2
    /\ \E i \in Rows :
        LET id == skus[i].sku_id
        IN  /\ InboundBefore(id, chosen_start_date)
                 + OutboundBefore(id, chosen_start_date) > 0
            /\ InboundOn(id, chosen_start_date)
                 + OutboundOn(id, chosen_start_date) > 0

\* The cells of df_processed in the group <<Description, Month_Label>>.
CellsOfGroup(name) ==
    {n \in DOMAIN df_processed :
        /\ df_processed[n].Description = name[1]
        /\ df_processed[n].Month_Label = name[2]}

SummaryRowsOf(name) ==
    {g \in DOMAIN df_summary :
        /\ df_summary[g].Description = name[1]
        /\ df_summary[g].Month_Label = name[2]}

WorstStatus(cells) ==
    IF \E n \in cells : df_processed[n].Status = "RED" THEN "RED"
    ELSE IF \E n \in cells : df_processed[n].Status = "AMBER" THEN "AMBER"
    ELSE "GREEN"

\* C5: the summary has exactly one row per group <<Description,
\* Month_Label>> of cells and no other row; the row's status is the worst
\* status of the group's cells (RED over AMBER over GREEN) and the value it
\* displays is the least Stock of the group's cells; cells of two SKUs
\* with one description fall into one group.
C5_MonthSummary ==
    called =>
        /\ \A g \in DOMAIN df_summary :
            <<df_summary[g].Description, df_summary[g].Month_Label>>
                \in GroupKeys(df_processed)
        /\ \A name \in GroupKeys(df_processed) :
            /\ Cardinality(SummaryRowsOf(name)) = 1
            /\ \A g \in SummaryRowsOf(name) :
                LET cells == CellsOfGroup(name)
                    least == DisplayedValue(df_summary[g].Display)
                IN  /\ df_summary[g].Status = WorstStatus(cells)
                    /\ \A n \in cells : least <= df_processed[n].Stock
                    /\ \E n \in cells : least = df_processed[n].Stock

\* Two SKU rows with one description whose cells of one month meet in one
\* summary row: the least Stock is a fraction and comes from the second
\* row, the worst status is not the status of the group's first cell.
C5_Witness ==
    /\ called /\ FullGrid /\ Len(skus) = 2 /\ days_to_show >= 1
    /\ skus[1].sku_id # skus[2].sku_id
    /\ CellAt(1, 1).Description = CellAt(2, 1).Description
    /\ CellAt(1, 1).Status = "AMBER"
    /\ CellAt(2, 1).Status = "RED"
    /\ \E g \in DOMAIN df_summary :
        /\ df_summary[g].Description = CellAt(1, 1).Description
        /\ df_summary[g].Month_Label = CellAt(1, 1).Month_Label
        /\ df_summary[g].Status = "RED"
        /\ "float" \in DOMAIN df_summary[g].Display

\* The rows of an event table that name the identifier id.
EventsOf(table, id) == SelectSeq(table, LAMBDA r : r.sku_id = id)

\* The block of cells of SKU row i.
BlockOf(i) ==
    SubSeq(df_processed, (i - 1) * days_to_show + 1, i * days_to_show)

\* C7: the cells of a SKU row are those the engine gives for that row alone
\* with only the events naming its identifier, so events of any other
\* identifier, in the SKU table or not, change none of them; and every cell
\* carries an identifier of the SKU table.
C7_PerSkuIndependence ==
    called =>
        /\ FullGrid
        /\ \A i \in Rows :
            BlockOf(i) =
                calculate_inventory(<<skus[i]>>,
                    EventsOf(inbound, skus[i].sku_id),
                    EventsOf(outbound, skus[i].sku_id),
                    chosen_start_date, days_to_show)
        /\ \A n \in DOMAIN df_processed :
            \E i \in Rows : df_processed[n].SKU_ID = skus[i].sku_id

\* A SKU table without the identifier "B", and events of "B" before the
\* window and on its first day: the cells of "A" stay at its stock_on_hand.
C7_Witness ==
    /\ called /\ FullGrid /\ days_to_show >= 1 /\ skus # <<>>
    /\ \A i \in Rows : skus[i].sku_id = "A"
    /\ InboundBefore("B", chosen_start_date) > 0
    /\ OutboundOn("B", chosen_start_date) > 0
    /\ \A n \in DOMAIN df_processed :
        df_processed[n].Stock = skus[1].stock_on_hand

KnownDates(table, col) == SelectSeq(table, LAMBDA r : r[col] # NaT)

\* C8: an event whose date is NaT is in no date match: the projection is,
\* cell for cell (Stock, Status, Marker and the rest), the projection of
\* the tables without their NaT rows.
C8_UnknownDateExcluded ==
    called =>
        df_processed =
            calculate_inventory(skus,
                KnownDates(inbound, "arrival_date"),
                KnownDates(outbound, "dispatch_date"),
                chosen_start_date, days_to_show)

\* NaT events, inbound and outbound, of a SKU that is projected.
C8_Witness ==
    /\ called /\ FullGrid /\ days_to_show >= 1 /\ skus # <<>>
    /\ \E j \in DOMAIN inbound :
        /\ inbound[j].arrival_date = NaT
        /\ inbound[j].sku_id = skus[1].sku_id
    /\ \E j \in DOMAIN outbound :
        /\ outbound[j].dispatch_date = NaT
        /\ outbound[j].sku_id = skus[1].sku_id
    /\ CellAt(1, 1).Stock = skus[1].stock_on_hand
    /\ CellAt(1, 1).Marker = ""

\* C9: the marker of a cell is "^v" when the SKU's inbound and outbound
\* totals of that day are both positive, "^" when only the inbound total
\* is, "v" when only the outbound total is, and empty when neither is;
\* events of other days set no marker.
C9_ChangeMarker ==
    called =>
        /\ FullGrid
        /\ \A i \in Rows : \A k \in Days :
            LET din == InboundOn(skus[i].sku_id, DayOf(k))
                dout == OutboundOn(skus[i].sku_id, DayOf(k))
            IN  CellAt(i, k).Marker =
                    (IF din > 0 /\ dout > 0 THEN "^v"
                     ELSE IF din > 0 THEN "^"
                     ELSE IF dout > 0 THEN "v"
                     ELSE "")

\* A day with both kinds of event, after a day whose only events lie
\* before the window.
C9_Witness ==
    /\ called /\ FullGrid /\ days_to_show >= 2
    /\ \E i \in Rows :
        /\ CellAt(i, 2).Marker = "^v"
        /\ CellAt(i, 1).Marker = ""

(***************************************************************************)
(* Properties of the loader, the caller's guard and the login gate.        *)
(***************************************************************************)
FlagIs(b) ==
    /\ "password_correct" \in DOMAIN session_state
    /\ session_state["password_correct"] = b

\* The tables a complete load of some spreadsheet content returns.
CompleteLoads ==
    {load_data_from_sheets(sheet, "") : sheet \in
        {x \in Sheets : Raised(x, "") = ""}}

\* C6: a load that fails, at the connection, at any one worksheet or at
\* the date normalisation, leaves three empty tables and never some loaded
\* and some empty; the engine is invoked only with a non-empty SKU table
\* that comes, with both event tables, from one complete load; with an
\* empty SKU table the run shows the waiting state and projects nothing.
C6_NoPartialTables ==
    /\ load_error # "" => skus = <<>> /\ inbound = <<>> /\ outbound = <<>>
    /\ cache # <<>> /\ cache[1].error # "" =>
           cache[1].skus = <<>> /\ cache[1].inbound = <<>>
                                /\ cache[1].outbound = <<>>
    /\ called =>
           /\ skus # <<>>
           /\ load_error = ""
           /\ \E l \in CompleteLoads :
                  skus = l.skus /\ inbound = l.inbound /\ outbound = l.outbound
    /\ PastGate /\ skus = <<>> =>
           screen = "waiting" /\ ~called /\ df_processed = <<>>
                              /\ df_summary = <<>>
    /\ PastGate /\ skus # <<>> => called /\ screen = "dashboard"

\* A load that failed on the third worksheet, after two had been read, and
\* left the dashboard waiting.
C6_Witness ==
    /\ load_error = "db_outbound"
    /\ screen = "waiting"
    /\ skus = <<>> /\ inbound = <<>> /\ outbound = <<>>
    /\ ~called

\* C10: the code after the gate runs only while password_correct is True,
\* and nothing is loaded or cached before; the flag turns True only on
\* the entry of the exact password; any other entry sets it to False and
\* leaves the gate closed; the correct entry removes the password from the
\* session state; and a flag that is True stays True.
C10_LoginGate ==
    /\ [](PastGate => FlagIs(TRUE))
    /\ [](~FlagIs(TRUE) => cache = <<>> /\ ~called /\ skus = <<>>)
    /\ [][ /\ (~FlagIs(TRUE) /\ FlagIs(TRUE)') =>
                (entered' # entered /\ entered' = "inventory2026")
           /\ (entered' # entered /\ entered' # "inventory2026") =>
                (FlagIs(FALSE)' /\ ~PastGate' /\ screen' = "login_error")
           /\ (entered' # entered /\ entered' = "inventory2026") =>
                (FlagIs(TRUE)' /\ "password" \notin DOMAIN session_state')
           /\ FlagIs(TRUE) => FlagIs(TRUE)' ]_vars

\* The gate has opened after a wrong entry, and the dashboard is shown.
C10_Witness ==
    /\ FlagIs(TRUE)
    /\ entered = "inventory2026"
    /\ "password" \notin DOMAIN session_state
    /\ screen = "dashboard"
    /\ view_option = "90 Days"

====
